---- MODULE Spec2Model ----
(***************************************************************************)
(* Graph construction of Inception-ResNet V2                               *)
(* (inception_resnet_v2_inputs.py).                                        *)
(*                                                                         *)
(* A tensor is its static shape as K.int_shape gives it under the          *)
(* channels_last data format: <<batch, height, width, channels>> with the  *)
(* batch entry None, or <<batch, units>> after a global pooling or a dense *)
(* layer.  A layer call that the framework rejects (a non-positive output  *)
(* size, branches that do not line up, operands that do not broadcast)     *)
(* yields the Raised tensor; nothing after the first rejected call of a    *)
(* function is built.  Residual scales are kept in hundredths (0.17 is 17).*)
(***************************************************************************)
EXTENDS Integers, Sequences, FiniteSets, TLC

VARIABLES
    pc,           \* position inside inception_resnet_v2
    args,         \* the arguments of the call of inception_resnet_v2
    inputs,       \* the local inputs: the Input tensor
    x,            \* the local x of inception_resnet_v2: the current tensor
    block_idx,    \* the loop variable of the three residual stages
    trace,        \* the builder calls made so far, in order
    last,         \* what the latest builder call created
    names,        \* the explicit layer names given so far, in order
    model,        \* the Model object, once created
    loads,        \* the calls of model.load_weights made so far
    b_pc,         \* position of a stand-alone call of inception_resnet_block
    b_args,       \* its arguments
    b_res         \* its outcome

vars == <<pc, args, inputs, x, block_idx, trace, last, names, model, loads, b_pc, b_args, b_res>>

buildVars == <<pc, args, inputs, x, block_idx, trace, last, names, model, loads>>
blockVars == <<b_pc, b_args, b_res>>

---------------------------------------------------------------------------
(* Bounds of the explored inputs *)

\* stand-alone block calls: heights and widths 1..MaxDim besides the grid sizes
MaxDim == 3
\* stand-alone block calls: channel counts 1..MaxChan besides the stage widths
MaxChan == 2
\* model inputs, every argument varied: heights and widths from one below the
\* minimum up to MinSize + SizeSpan
SizeSpan == 2
\* model inputs, headless and without weights: heights up to MinSize + WideSpan,
\* square or against the minimum
WideSpan == 32

---------------------------------------------------------------------------
(* Python values *)

None == "None"
Raised == <<"raised">>

IsRaised(t) == Len(t) = 1

Digits == <<"0", "1", "2", "3", "4", "5", "6", "7", "8", "9">>

RECURSIVE str(_)
str(n) == IF n < 10 THEN Digits[n + 1] ELSE str(n \div 10) \o Digits[(n % 10) + 1]

RECURSIVE SumSeq(_)
SumSeq(s) == IF s = <<>> THEN 0 ELSE Head(s) + SumSeq(Tail(s))

Max(a, b) == IF a >= b THEN a ELSE b

---------------------------------------------------------------------------
(* Framework layers, by their shape arithmetic *)

\* attr: the configuration of the layer (of an Activation, its function; of a Lambda,
\* its scale)
Layer(kind, name, attr, ins, out) ==
    [kind |-> kind, name |-> name, attr |-> attr, ins |-> ins, out |-> out]

Out(ls) == ls[Len(ls)].out

\* output extent of a convolution or pooling window along one axis
WindowOut(n, k, s, padding) ==
    IF padding = "valid" THEN (n - k) \div s + 1 ELSE (n + s - 1) \div s

Windowed(t, kernel, strides, padding, channels) ==
    IF IsRaised(t) \/ Len(t) # 4 THEN Raised
    ELSE LET h == WindowOut(t[2], kernel[1], strides, padding)
             w == WindowOut(t[3], kernel[2], strides, padding)
         IN IF t[2] < 1 \/ t[3] < 1 \/ h < 1 \/ w < 1 THEN Raised
            ELSE <<t[1], h, w, channels>>

Conv2D(t, filters, kernel_size, strides, padding, use_bias, name) ==
    <<Layer("Conv2D", name,
            [filters |-> filters, kernel_size |-> kernel_size, strides |-> strides,
             padding |-> padding, use_bias |-> use_bias],
            <<t>>, Windowed(t, kernel_size, strides, padding, filters))>>

BatchNormalization(t, name) == <<Layer("BatchNormalization", name, None, <<t>>, t)>>

Activation(t, activation, name) == <<Layer("Activation", name, activation, <<t>>, t)>>

MaxPooling2D(t, pool_size, strides, padding) ==
    <<Layer("MaxPooling2D", None,
            [pool_size |-> pool_size, strides |-> strides, padding |-> padding], <<t>>,
            IF IsRaised(t) THEN Raised ELSE Windowed(t, pool_size, strides, padding, t[4]))>>

AveragePooling2D(t, pool_size, strides, padding) ==
    <<Layer("AveragePooling2D", None,
            [pool_size |-> pool_size, strides |-> strides, padding |-> padding], <<t>>,
            IF IsRaised(t) THEN Raised ELSE Windowed(t, pool_size, strides, padding, t[4]))>>

\* Concatenate(axis=axis): every other axis agrees, the axis adds up
ConcatShape(branches, axis) ==
    IF \E i \in 1..Len(branches) : IsRaised(branches[i]) \/ Len(branches[i]) # 4 THEN Raised
    ELSE IF \E i \in 1..Len(branches) : \E d \in (1..4) \ {axis + 1} :
                branches[i][d] # branches[1][d] THEN Raised
    ELSE [d \in 1..4 |-> IF d = axis + 1
                         THEN SumSeq([i \in 1..Len(branches) |-> branches[i][d]])
                         ELSE branches[1][d]]

Concatenate(branches, axis, name) ==
    <<Layer("Concatenate", name, None, branches, ConcatShape(branches, axis))>>

\* elementwise a + b * scale, with broadcasting of extents of 1
Broadcast(a, b) ==
    IF IsRaised(a) \/ IsRaised(b) \/ Len(a) # Len(b) THEN Raised
    ELSE IF \E d \in 2..Len(a) : a[d] # b[d] /\ a[d] # 1 /\ b[d] # 1 THEN Raised
    ELSE [d \in 1..Len(a) |-> IF d = 1 THEN a[1] ELSE Max(a[d], b[d])]

Lambda(operands, scale, name) ==
    <<Layer("Lambda", name, scale, operands, Broadcast(operands[1], operands[2]))>>

GlobalAveragePooling2D(t, name) ==
    <<Layer("GlobalAveragePooling2D", name, None, <<t>>,
            IF IsRaised(t) \/ Len(t) # 4 THEN Raised ELSE <<t[1], t[4]>>)>>

GlobalMaxPooling2D(t, name) ==
    <<Layer("GlobalMaxPooling2D", name, None, <<t>>,
            IF IsRaised(t) \/ Len(t) # 4 THEN Raised ELSE <<t[1], t[4]>>)>>

Dense(t, units, activation, name) ==
    <<Layer("Dense", name, activation, <<t>>,
            IF IsRaised(t) \/ units < 1 THEN Raised ELSE <<t[1], units>>)>>

\* the layers actually built: program order, up to the first rejected call
RECURSIVE Built(_)
Built(ls) ==
    IF ls = <<>> \/ IsRaised(Head(ls).out) THEN <<>> ELSE <<Head(ls)>> \o Built(Tail(ls))

Rejected(ls) == \E i \in 1..Len(ls) : IsRaised(ls[i].out)

\* outcome of a builder function whose calls, in program order, are ls
Result(ls) ==
    [status |-> IF Rejected(ls) THEN "ValueError" ELSE "ok",
     layers |-> Built(ls),
     ret    |-> IF Rejected(ls) THEN Raised ELSE Out(ls)]

K2(k) == <<k, k>>

int_shape(t) == t

---------------------------------------------------------------------------
(* conv2d_bn: convolution, batch normalization unless biased, activation.  *)
(* A value of the builders below is the list of the calls made so far, in  *)
(* program order; the tensor a Python variable holds is the output of the  *)
(* last call of its list.                                                  *)

then_bn(ls, use_bias, name) ==
    IF ~use_bias
    THEN ls \o BatchNormalization(Out(ls), IF name = None THEN None ELSE name \o "_bn")
    ELSE ls

then_activation(ls, activation, name) ==
    IF activation # None
    THEN ls \o Activation(Out(ls), activation, IF name = None THEN None ELSE name \o "_ac")
    ELSE ls

conv2d_bn(inp, filters, kernel_size, strides, padding, activation, use_bias, name) ==
    then_activation(
        then_bn(Conv2D(inp, filters, kernel_size, strides, padding, use_bias, name),
                use_bias, name),
        activation, name)

\* conv2d_bn(x, filters, kernel_size) with every keyword argument at its default
conv(inp, filters, kernel_size) ==
    conv2d_bn(inp, filters, kernel_size, 1, "same", "relu", FALSE, None)

\* conv2d_bn(x, filters, kernel_size, strides=strides, padding='valid')
conv_valid(inp, filters, kernel_size, strides) ==
    conv2d_bn(inp, filters, kernel_size, strides, "valid", "relu", FALSE, None)

\* the same calls applied to the tensor a list of calls ends with
then_conv(prev, filters, kernel_size) == prev \o conv(Out(prev), filters, kernel_size)

then_conv_valid(prev, filters, kernel_size, strides) ==
    prev \o conv_valid(Out(prev), filters, kernel_size, strides)

then_max_pool(prev, pool_size, strides, padding) ==
    prev \o MaxPooling2D(Out(prev), pool_size, strides, padding)

RECURSIVE Flatten(_)
Flatten(chains) == IF chains = <<>> THEN <<>> ELSE Head(chains) \o Flatten(Tail(chains))

\* branches = [...]; Concatenate(axis, name)(branches), after the calls of every branch
concat_branches(chains, axis, name) ==
    Flatten(chains) \o Concatenate([i \in 1..Len(chains) |-> Out(chains[i])], axis, name)

---------------------------------------------------------------------------
(* inception_resnet_block *)

BlockTypes == {"block35", "block17", "block8"}

block_name_shared(block_type, idx) == block_type

block_name(block_type, idx) == block_type \o "_" \o str(idx)

projection_filters_width(input) == int_shape(input)[3]

\* K.int_shape(input)[3]; Python counts axes from 0
projection_filters(input) == int_shape(input)[4]

\* the branches of one variant, each with the calls that build it
block_branches(input, block_type) ==
    IF block_type = "block35" THEN
        LET branch_11 == conv(input, 32, K2(1))
            branch_12 == conv(input, 32, K2(1))
            branch_22 == then_conv(branch_12, 32, K2(3))
            branch_13 == conv(input, 32, K2(1))
            branch_23 == then_conv(branch_13, 48, K2(3))
            branch_33 == then_conv(branch_23, 64, K2(3))
        IN <<branch_11, branch_22, branch_33>>
    ELSE IF block_type = "block17" THEN
        LET branch_11 == conv(input, 192, K2(1))
            branch_12 == conv(input, 128, K2(1))
            branch_22 == then_conv(branch_12, 160, <<1, 7>>)
            branch_32 == then_conv(branch_22, 192, <<7, 1>>)
        IN <<branch_11, branch_32>>
    ELSE
        LET branch_11 == conv(input, 192, K2(1))
            branch_12 == conv(input, 192, K2(1))
            branch_22 == then_conv(branch_12, 224, <<1, 3>>)
            branch_32 == then_conv(branch_22, 256, <<3, 1>>)
        IN <<branch_11, branch_32>>

known_block_type_lenient(block_type) == TRUE

\* the if / elif / elif chain; anything else reaches the raise
known_block_type(block_type) == block_type \in BlockTypes

\* mix, the projection up, and the scaled residual
then_projection(mix, filters, name) ==
    mix \o conv2d_bn(Out(mix), filters, K2(1), 1, "same", None, TRUE, name)

then_residual(ls, input, scale, name) == ls \o Lambda(<<input, Out(ls)>>, scale, name)

\* "if activation is not None: x = Activation(...)(up)" and then "return x":
\* the local x is bound only when an activation is given
block_return(ls, activation, name) ==
    IF Rejected(ls) THEN Result(ls)
    ELSE IF activation # None
         THEN Result(then_activation(ls, activation, name))
         ELSE [status |-> "UnboundLocalError", layers |-> ls, ret |-> Raised]

inception_resnet_block(input, scale, block_type, idx, activation) ==
    IF ~known_block_type(block_type)
    THEN [status |-> "ValueError", layers |-> <<>>, ret |-> Raised]
    ELSE block_return(
            then_residual(
                then_projection(
                    concat_branches(block_branches(input, block_type), 3,
                                    block_name(block_type, idx) \o "_mixed"),
                    projection_filters(input),
                    block_name(block_type, idx) \o "_conv"),
                input, scale, block_name(block_type, idx)),
            activation, block_name(block_type, idx))

---------------------------------------------------------------------------
(* The fixed blocks *)

inception_stem_same(input) ==
    LET c1 == conv_valid(input, 32, K2(3), 2)
        c2 == then_conv(c1, 32, K2(3))
        c3 == then_conv(c2, 64, K2(3))
        p1 == then_max_pool(c3, K2(3), 2, "valid")
        c4 == then_conv_valid(p1, 80, K2(1), 1)
        c5 == then_conv_valid(c4, 192, K2(3), 1)
        p2 == then_max_pool(c5, K2(3), 2, "valid")
    IN Result(p2)

inception_stem(input) ==
    LET c1 == conv_valid(input, 32, K2(3), 2)
        c2 == then_conv_valid(c1, 32, K2(3), 1)
        c3 == then_conv(c2, 64, K2(3))
        p1 == then_max_pool(c3, K2(3), 2, "valid")
        c4 == then_conv_valid(p1, 80, K2(1), 1)
        c5 == then_conv_valid(c4, 192, K2(3), 1)
        p2 == then_max_pool(c5, K2(3), 2, "valid")
    IN Result(p2)

inception_a(input) ==
    LET branch_11 == conv(input, 96, K2(1))
        branch_12 == conv(input, 48, K2(1))
        branch_22 == then_conv(branch_12, 64, K2(5))
        branch_13 == conv(input, 64, K2(1))
        branch_23 == then_conv(branch_13, 96, K2(3))
        branch_33 == then_conv(branch_23, 96, K2(3))
        branch_14 == AveragePooling2D(input, K2(3), 1, "same")
        branch_24 == then_conv(branch_14, 64, K2(1))
    IN Result(concat_branches(<<branch_11, branch_22, branch_33, branch_24>>, 3, "mixed_5b"))

reduction_a(input) ==
    LET branch_11 == conv_valid(input, 384, K2(3), 2)
        branch_12 == conv(input, 256, K2(1))
        branch_22 == then_conv(branch_12, 256, K2(3))
        branch_32 == then_conv_valid(branch_22, 384, K2(3), 2)
        branch_13 == MaxPooling2D(input, K2(3), 2, "valid")
    IN Result(concat_branches(<<branch_11, branch_32, branch_13>>, 3, "mixed_6a"))

reduction_b_same(input) ==
    LET branch_11 == conv(input, 256, K2(1))
        branch_21 == then_conv_valid(branch_11, 384, K2(3), 2)
        branch_12 == conv(input, 256, K2(1))
        branch_22 == then_conv_valid(branch_12, 288, K2(3), 2)
        branch_13 == conv(input, 256, K2(1))
        branch_23 == then_conv(branch_13, 288, K2(3))
        branch_33 == then_conv_valid(branch_23, 320, K2(3), 2)
        branch_14 == MaxPooling2D(input, K2(3), 2, "same")
    IN Result(concat_branches(<<branch_21, branch_22, branch_33, branch_14>>, 3, "mixed_7a"))

reduction_b(input) ==
    LET branch_11 == conv(input, 256, K2(1))
        branch_21 == then_conv_valid(branch_11, 384, K2(3), 2)
        branch_12 == conv(input, 256, K2(1))
        branch_22 == then_conv_valid(branch_12, 288, K2(3), 2)
        branch_13 == conv(input, 256, K2(1))
        branch_23 == then_conv(branch_13, 288, K2(3))
        branch_33 == then_conv_valid(branch_23, 320, K2(3), 2)
        branch_14 == MaxPooling2D(input, K2(3), 2, "valid")
    IN Result(concat_branches(<<branch_21, branch_22, branch_33, branch_14>>, 3, "mixed_7a"))

---------------------------------------------------------------------------
(* inception_resnet_v2: the arguments explored *)

WEIGHTS_PATH == "/home/mike/keras_dnn_models/inception_resnet_v2_weights_tf_dim_ordering_tf_kernels.h5"
WEIGHTS_PATH_NO_TOP == "/home/mike/keras_dnn_models/inception_resnet_v2_weights_tf_dim_ordering_tf_kernels_notop.h5"

DefaultSize == 299
MinSize == 139
DefaultClasses == 1000

InputSizes == (MinSize - 1)..(MinSize + SizeSpan)

\* input_shape=None is the empty tuple
NoShape == <<>>

InputShapes ==
    {NoShape} \cup {<<h, w, 3>> : h \in InputSizes, w \in InputSizes}
           \cup {<<MinSize, MinSize, 1>>}

WideSizes == MinSize..(MinSize + WideSpan)

WideShapes ==
    {<<h, h, 3>> : h \in WideSizes} \cup {<<h, MinSize, 3>> : h \in WideSizes}
                                    \cup {<<MinSize, w, 3>> : w \in WideSizes}

ArgSets ==
    [include_top : BOOLEAN,
     weights     : {"imagenet", None, "random"},
     input_shape : InputShapes,
     pooling     : {None, "avg", "max"},
     classes     : {DefaultClasses, 10}]
    \cup
    [include_top : {FALSE},
     weights     : {None},
     input_shape : WideShapes,
     pooling     : {None},
     classes     : {DefaultClasses}]

\* _obtain_input_shape(input_shape, default_size=299, min_size=139, data_format=None,
\*                     require_flatten=include_top, weights=weights)
obtain_input_shape(input_shape, default_size, min_size, weights) ==
    IF input_shape = NoShape THEN <<default_size, default_size, 3>>
    ELSE IF input_shape[1] < min_size \/ input_shape[2] < min_size THEN Raised
    ELSE IF weights = "imagenet" /\ input_shape[3] # 3 THEN Raised
    ELSE input_shape

\* Input(shape=input_shape): the batch axis is None
Input(shape) == <<None>> \o shape

Event(fn, name, idx, scale) == [fn |-> fn, name |-> name, idx |-> idx, scale |-> scale]

RECURSIVE ExplicitNames(_)
ExplicitNames(ls) ==
    IF ls = <<>> THEN <<>>
    ELSE (IF Head(ls).name = None THEN <<>> ELSE <<Head(ls).name>>) \o ExplicitNames(Tail(ls))

\* one statement x = f(x): the call is recorded, its layers are named, and x is
\* rebound unless the call raised
Call(event, r, next_pc) ==
    /\ trace' = Append(trace, event)
    /\ last' = r
    /\ names' = names \o ExplicitNames(r.layers)
    /\ IF r.status = "ok"
       THEN x' = r.ret /\ pc' = next_pc
       ELSE x' = x /\ pc' = "raised"

---------------------------------------------------------------------------
(* inception_resnet_v2: one action per statement *)

NoResult == [status |-> "none", layers |-> <<>>, ret |-> Raised]

NoModel == [inputs |-> Raised, outputs |-> Raised, name |-> None, weights |-> None]

\* a call of inception_resnet_v2 is about to be made
InitModel ==
    /\ pc = "start"
    /\ args \in ArgSets
    /\ inputs = Raised
    /\ x = Raised
    /\ block_idx = 0
    /\ trace = <<>>
    /\ last = NoResult
    /\ names = <<>>
    /\ model = NoModel
    /\ loads = <<>>
    /\ b_pc = "idle"
    /\ b_args = None
    /\ b_res = NoResult

\* a call of inception_resnet_block on its own, on any input, is about to be made
BlockDims == (1..MaxDim) \cup {8, 17, 35}
BlockChannels == (1..MaxChan) \cup {320, 1088, 2080}

BlockArgSets ==
    [input      : {<<None, h, w, c>> : h \in BlockDims, w \in BlockDims, c \in BlockChannels},
     scale      : {17, 10},
     block_type : BlockTypes \cup {"block99"},
     block_idx  : {1, 10},
     activation : {"relu", None}]

InitBlock ==
    /\ pc = "idle"
    /\ args = None
    /\ inputs = Raised
    /\ x = Raised
    /\ block_idx = 0
    /\ trace = <<>>
    /\ last = NoResult
    /\ names = <<>>
    /\ model = NoModel
    /\ loads = <<>>
    /\ b_pc = "call"
    /\ b_args \in BlockArgSets
    /\ b_res = NoResult

Init == InitModel \/ InitBlock

ObtainInputShape ==
    /\ pc = "start"
    /\ LET shape == obtain_input_shape(args.input_shape, DefaultSize, MinSize, args.weights)
       IN IF IsRaised(shape)
          THEN pc' = "raised" /\ inputs' = inputs
          ELSE pc' = "inception_stem" /\ inputs' = Input(shape)
    /\ UNCHANGED <<args, x, block_idx, trace, last, names, model, loads, blockVars>>

Stem ==
    /\ pc = "inception_stem"
    /\ Call(Event("inception_stem", None, 0, 0), inception_stem(inputs), "inception_a")
    /\ UNCHANGED <<args, inputs, block_idx, model, loads, blockVars>>

InceptionA ==
    /\ pc = "inception_a"
    /\ Call(Event("inception_a", None, 0, 0), inception_a(x), "block35")
    /\ UNCHANGED <<args, inputs, block_idx, model, loads, blockVars>>

\* for block_idx in range(1, stop): x = inception_resnet_block(x, scale, block_type, block_idx)
NextIdx(block_type) ==
    IF trace # <<>> /\ trace[Len(trace)].name = block_type THEN block_idx + 1 ELSE 1

Stage(block_type, scale, stop, next_pc) ==
    /\ LET idx == NextIdx(block_type)
       IN /\ block_idx' = idx
          /\ Call(Event("inception_resnet_block", block_type, idx, scale),
                  inception_resnet_block(x, scale, block_type, idx, "relu"),
                  IF idx + 1 < stop THEN block_type ELSE next_pc)
    /\ UNCHANGED <<args, inputs, model, loads, blockVars>>

Block35 ==
    /\ pc = "block35"
    /\ Stage("block35", 17, 11, "reduction_a")

ReductionA ==
    /\ pc = "reduction_a"
    /\ Call(Event("reduction_a", None, 0, 0), reduction_a(x), "block17")
    /\ UNCHANGED <<args, inputs, block_idx, model, loads, blockVars>>

Block17 ==
    /\ pc = "block17"
    /\ Stage("block17", 10, 21, "reduction_b")

ReductionB ==
    /\ pc = "reduction_b"
    /\ Call(Event("reduction_b", None, 0, 0), reduction_b(x), "block8")
    /\ UNCHANGED <<args, inputs, block_idx, model, loads, blockVars>>

Block8_scale ==
    /\ pc = "block8"
    /\ Stage("block8", 17, 11, "conv_7b")

Block8 ==
    /\ pc = "block8"
    /\ Stage("block8", 20, 11, "conv_7b")

final_conv(input) == Result(conv2d_bn(input, 1536, K2(1), 1, "same", "relu", FALSE, "conv_7b"))

Conv7b ==
    /\ pc = "conv_7b"
    /\ Call(Event("conv2d_bn", "conv_7b", 0, 0), final_conv(x), "head")
    /\ UNCHANGED <<args, inputs, block_idx, model, loads, blockVars>>

then_dense(prev, units, activation, name) ==
    prev \o Dense(Out(prev), units, activation, name)

head_avg_only(input, include_top, pooling, classes) ==
    IF include_top
    THEN Result(then_dense(GlobalAveragePooling2D(input, "avg_pool"), classes, "softmax",
                           "predictions"))
    ELSE IF pooling = "avg" THEN Result(GlobalAveragePooling2D(input, None))
    ELSE [status |-> "ok", layers |-> <<>>, ret |-> input]

\* the classification block, or the pooling of the headless model
head(input, include_top, pooling, classes) ==
    IF include_top
    THEN Result(then_dense(GlobalAveragePooling2D(input, "avg_pool"), classes, "softmax",
                           "predictions"))
    ELSE IF pooling = "avg" THEN Result(GlobalAveragePooling2D(input, None))
    ELSE IF pooling = "max" THEN Result(GlobalMaxPooling2D(input, None))
    ELSE [status |-> "ok", layers |-> <<>>, ret |-> input]

BuildHead ==
    /\ pc = "head"
    /\ Call(Event("head", None, 0, 0), head(x, args.include_top, args.pooling, args.classes),
            "create_model")
    /\ UNCHANGED <<args, inputs, block_idx, model, loads, blockVars>>

Model(ins, outs, name) == [inputs |-> ins, outputs |-> outs, name |-> name, weights |-> None]

CreateModel ==
    /\ pc = "create_model"
    /\ model' = Model(inputs, x, "inception_resnet_v2")
    /\ pc' = "load_weights"
    /\ trace' = Append(trace, Event("Model", "inception_resnet_v2", 0, 0))
    /\ UNCHANGED <<args, inputs, x, block_idx, last, names, loads, blockVars>>

weights_to_load_top(weights, include_top) ==
    IF weights = "imagenet" THEN <<[path |-> WEIGHTS_PATH, by_name |-> FALSE]>> ELSE <<>>

\* the load requested by the arguments: <<>> when none is made
weights_to_load(weights, include_top) ==
    IF weights = "imagenet"
    THEN <<[path    |-> IF include_top THEN WEIGHTS_PATH ELSE WEIGHTS_PATH_NO_TOP,
            by_name |-> FALSE]>>
    ELSE <<>>

\* whether the file read from the path fits the model; the file is outside the program
LoadWeights ==
    /\ pc = "load_weights"
    /\ LET todo == weights_to_load(args.weights, args.include_top)
       IN /\ loads' = loads \o todo
          /\ trace' = trace \o [i \in 1..Len(todo) |-> Event("load_weights", todo[i].path, 0, 0)]
          /\ IF todo = <<>>
             THEN pc' = "done" /\ model' = model
             ELSE \E file_fits \in BOOLEAN :
                    IF file_fits /\ (args.include_top => args.classes = DefaultClasses)
                    THEN pc' = "done" /\ model' = [model EXCEPT !.weights = todo[1].path]
                    ELSE pc' = "raised" /\ model' = model
    /\ UNCHANGED <<args, inputs, x, block_idx, last, names, blockVars>>

\* inception_resnet_block called on its own
CallBlock ==
    /\ b_pc = "call"
    /\ b_res' = inception_resnet_block(b_args.input, b_args.scale, b_args.block_type,
                                       b_args.block_idx, b_args.activation)
    /\ b_pc' = IF b_res'.status = "ok" THEN "returned" ELSE "raised"
    /\ UNCHANGED <<b_args, buildVars>>

Next ==
    \/ CallBlock
    \/ ObtainInputShape
    \/ Stem
    \/ InceptionA
    \/ Block35
    \/ ReductionA
    \/ Block17
    \/ ReductionB
    \/ Block8
    \/ Conv7b
    \/ BuildHead
    \/ CreateModel
    \/ LoadWeights

Spec == Init /\ [][Next]_vars

---------------------------------------------------------------------------
(* Properties *)

BuildRunning == pc # "idle"
BlockCalled == b_pc \in {"returned", "raised"}
KnownBlockCalled == BlockCalled /\ b_args.block_type \in {"block35", "block17", "block8"}

LastEvent == trace[Len(trace)]
LastIsBlock == trace # <<>> /\ LastEvent.fn = "inception_resnet_block"

\* the layers of kind k among ls, in order
OfKind(ls, k) == SelectSeq(ls, LAMBDA l : l.kind = k)

Repeat(n, block_type, scale) ==
    [i \in 1..n |-> Event("inception_resnet_block", block_type, i, scale)]

ExpectedOrder ==
    <<Event("inception_stem", None, 0, 0), Event("inception_a", None, 0, 0)>>
    \o Repeat(10, "block35", 17)
    \o <<Event("reduction_a", None, 0, 0)>>
    \o Repeat(20, "block17", 10)
    \o <<Event("reduction_b", None, 0, 0)>>
    \o Repeat(10, "block8", 20)
    \o <<Event("conv2d_bn", "conv_7b", 0, 0), Event("head", None, 0, 0)>>

\* C1: whatever include_top, pooling and weights are, the builder calls made so far
\* are always an initial part of: stem, inception_a, block35 with block_idx 1..10 and
\* scale 0.17, reduction_a, block17 with block_idx 1..20 and scale 0.1, reduction_b,
\* block8 with block_idx 1..10 and scale 0.2, the 1x1 convolution conv_7b with 1536
\* filters, the head; and a returned model has gone through all of them.
C1_ConstructionOrder ==
    BuildRunning =>
        /\ \A i \in 1..Len(trace) : i <= Len(ExpectedOrder) => trace[i] = ExpectedOrder[i]
        /\ trace # <<>> /\ LastEvent.name = "conv_7b" /\ last.status = "ok" =>
              /\ last.layers[1].kind = "Conv2D"
              /\ last.layers[1].name = "conv_7b"
              /\ last.layers[1].attr.filters = 1536
              /\ last.layers[1].attr.kernel_size = <<1, 1>>
        /\ pc \in {"create_model", "load_weights", "done"} => Len(trace) >= Len(ExpectedOrder)

C1_Witness ==
    /\ pc = "done"
    /\ args.include_top /\ args.pooling = "max" /\ args.weights = "imagenet"
    /\ Len(trace) = Len(ExpectedOrder) + 2

\* the block outcomes in the state: of the stand-alone call, of the latest stage call
BlockOutcomes ==
    (IF KnownBlockCalled THEN {b_res} ELSE {})
    \cup (IF BuildRunning /\ LastIsBlock THEN {last} ELSE {})

BlockInput(r) == r.layers[1].ins[1]
Projection(r) == SelectSeq(OfKind(r.layers, "Conv2D"), LAMBDA l : l.attr.use_bias)
Residual(r) == OfKind(r.layers, "Lambda")

\* C2: in every residual block, of each variant and on every input shape, the 1x1
\* projection has as many channels as the block's input, the scaled residual has
\* the input's shape, and so has the tensor the block returns; in the full model x
\* leaves each of the 40 residual blocks with the shape it entered it with.
C2_BlockKeepsShape ==
    /\ \A r \in BlockOutcomes :
          /\ Len(Projection(r)) = 1
          /\ Projection(r)[1].out[4] = BlockInput(r)[4]
          /\ Projection(r)[1].attr.kernel_size = <<1, 1>>
          /\ Len(Residual(r)) = 1
          /\ Residual(r)[1].out = BlockInput(r)
          /\ r.status = "ok" => r.ret = BlockInput(r)
    /\ KnownBlockCalled => BlockInput(b_res) = b_args.input
    /\ BuildRunning /\ LastIsBlock => last.status = "ok" /\ x = BlockInput(last)

C2_Witness ==
    /\ b_pc = "returned"
    /\ b_args.block_type = "block17"
    /\ b_args.input = <<None, 2, 3, 1088>>
    /\ b_res.ret = <<None, 2, 3, 1088>>

\* C3: a call of inception_resnet_block with a block_type other than block35,
\* block17 and block8 ends in a ValueError with no layer created.
C3_UnknownBlockType ==
    BlockCalled /\ b_args.block_type \notin {"block35", "block17", "block8"} =>
        /\ b_pc = "raised"
        /\ b_res.status = "ValueError"
        /\ b_res.layers = <<>>

C3_Witness ==
    /\ b_pc = "raised"
    /\ b_args.block_type = "block99"
    /\ b_res.status = "ValueError"
    /\ b_res.layers = <<>>

\* C4: the final activation of the block is optional: a call on a known block type
\* returns, with activation None the scaled residual input + scale * projection
\* itself and no activation layer, otherwise that activation applied to it.
C4_ActivationOptional ==
    KnownBlockCalled =>
        /\ b_res.status = "ok"
        /\ Len(Residual(b_res)) = 1
        /\ Residual(b_res)[1].ins = <<b_args.input, Projection(b_res)[1].out>>
        /\ Residual(b_res)[1].attr = b_args.scale
        /\ LET final == b_res.layers[Len(b_res.layers)]
           IN IF b_args.activation = None
              THEN final.kind = "Lambda" /\ b_res.ret = final.out
              ELSE /\ final.kind = "Activation"
                   /\ final.attr = b_args.activation
                   /\ final.ins = <<Residual(b_res)[1].out>>
                   /\ b_res.ret = final.out

WindowSpec(l) ==
    IF l.kind = "Conv2D"
    THEN <<"conv", l.attr.kernel_size, l.attr.strides, l.attr.padding>>
    ELSE <<"max-pool", l.attr.pool_size, l.attr.strides, l.attr.padding>>

Windows(ls) ==
    LET w == SelectSeq(ls, LAMBDA l : l.kind \in {"Conv2D", "MaxPooling2D"})
    IN [i \in 1..Len(w) |-> WindowSpec(w[i])]

StemDone == pc = "inception_a"

\* C5: the stem is a 3x3 stride-2 valid convolution, a 3x3 valid convolution, a 3x3
\* same convolution, a 3x3 stride-2 max-pool, a 1x1 convolution, a 3x3 valid
\* convolution and a 3x3 stride-2 max-pool, in that order, and turns a 299x299x3
\* input into a 35x35 map of 192 channels.
C5_StemGrid ==
    StemDone =>
        /\ Windows(last.layers) =
              << <<"conv", <<3, 3>>, 2, "valid">>, <<"conv", <<3, 3>>, 1, "valid">>,
                 <<"conv", <<3, 3>>, 1, "same">>, <<"max-pool", <<3, 3>>, 2, "valid">>,
                 <<"conv", <<1, 1>>, 1, "valid">>, <<"conv", <<3, 3>>, 1, "valid">>,
                 <<"max-pool", <<3, 3>>, 2, "valid">> >>
        /\ inputs = <<None, 299, 299, 3>> => x = <<None, 35, 35, 192>>

C5_Witness ==
    /\ StemDone
    /\ inputs = <<None, 299, 299, 3>>
    /\ x = <<None, 35, 35, 192>>

ModelCreated == pc \in {"load_weights", "done"} \/ (pc = "raised" /\ model.name # None)

\* C6: the output of the model has the shape the head configuration calls for:
\* (classes) with the top, (1536) without the top and with avg or max pooling,
\* (height, width, 1536) without the top and without pooling, 8 x 8 for a
\* 299 x 299 input.
C6_OutputShape ==
    ModelCreated =>
        /\ args.include_top => model.outputs = <<None, args.classes>>
        /\ ~args.include_top /\ args.pooling \in {"avg", "max"} =>
              model.outputs = <<None, 1536>>
        /\ ~args.include_top /\ args.pooling = None =>
              /\ Len(model.outputs) = 4
              /\ model.outputs[4] = 1536
              /\ inputs = <<None, 299, 299, 3>> => model.outputs = <<None, 8, 8, 1536>>

C6_Witness ==
    /\ pc = "done"
    /\ ~args.include_top /\ args.pooling = "max"
    /\ model.outputs = <<None, 1536>>

ConcatWellFormed(l) ==
    /\ \A i \in 1..Len(l.ins) : l.ins[i][2] = l.ins[1][2] /\ l.ins[i][3] = l.ins[1][3]
    /\ l.out[2] = l.ins[1][2] /\ l.out[3] = l.ins[1][3]
    /\ l.out[4] = SumSeq([i \in 1..Len(l.ins) |-> l.ins[i][4]])

\* number of branches and channels of the concatenation of a builder call
MixOf(who) ==
    CASE who = "inception_a" -> <<4, 320>>
      [] who = "reduction_a" -> <<3, 0>>
      [] who = "reduction_b" -> <<4, 0>>
      [] who = "block35"     -> <<3, 128>>
      [] who = "block17"     -> <<2, 384>>
      [] who = "block8"      -> <<2, 448>>
      [] OTHER               -> <<0, 0>>

Who(e) == IF e.fn = "inception_resnet_block" THEN e.name ELSE e.fn

MixAsExpected(r, who) ==
    LET cs == OfKind(r.layers, "Concatenate")
    IN IF MixOf(who)[1] = 0 THEN cs = <<>>
       ELSE /\ Len(cs) = 1
            /\ ConcatWellFormed(cs[1])
            /\ Len(cs[1].ins) = MixOf(who)[1]
            /\ MixOf(who)[2] # 0 => cs[1].out[4] = MixOf(who)[2]
            /\ who \in {"reduction_a", "reduction_b"} =>
                  /\ \A i \in 1..Len(cs[1].ins) :
                        /\ cs[1].ins[i][2] = (BlockInput(r)[2] - 3) \div 2 + 1
                        /\ cs[1].ins[i][3] = (BlockInput(r)[3] - 3) \div 2 + 1
                  /\ Len(SelectSeq(r.layers, LAMBDA l :
                            /\ l.kind \in {"Conv2D", "MaxPooling2D"}
                            /\ WindowSpec(l)[2] = <<3, 3>>
                            /\ WindowSpec(l)[3] = 2
                            /\ WindowSpec(l)[4] = "valid")) = Len(cs[1].ins)

\* C7: for every input height and width of at least 139, no concatenation is
\* rejected, and each one joins branches of one height and width into their summed
\* channels: 4 branches and 320 channels in inception_a, 3 branches in reduction_a, 4
\* in reduction_b, 128, 384 and 448 channels in block35, block17 and block8; in the
\* reductions every branch ends in the same 3x3 stride-2 valid step.
C7_Concatenations ==
    /\ (BuildRunning /\ trace # <<>> /\ LastEvent.fn \notin {"Model", "load_weights"}
        /\ inputs[2] >= 139 /\ inputs[3] >= 139) =>
          /\ last.status = "ok"
          /\ MixAsExpected(last, Who(LastEvent))
    /\ KnownBlockCalled =>
          /\ b_res.status # "ValueError"
          /\ MixAsExpected(b_res, b_args.block_type)

C7_Witness ==
    /\ pc = "block8"
    /\ LastEvent.fn = "reduction_b"
    /\ inputs[2] = 150 /\ inputs[3] = 139
    /\ Len(OfKind(last.layers, "Concatenate")[1].ins) = 4

\* C8: load_weights is called at most once, after the Model has been created from the
\* finished graph, exactly when weights is 'imagenet', on WEIGHTS_PATH with the top and
\* on WEIGHTS_PATH_NO_TOP without, and not by name; with any other weights the model
\* is returned without weights.
C8_WeightLoading ==
    BuildRunning =>
        /\ Len(loads) <= 1
        /\ loads # <<>> =>
              /\ args.weights = "imagenet"
              /\ loads[1].path = (IF args.include_top
                     THEN "/home/mike/keras_dnn_models/inception_resnet_v2_weights_tf_dim_ordering_tf_kernels.h5"
                     ELSE "/home/mike/keras_dnn_models/inception_resnet_v2_weights_tf_dim_ordering_tf_kernels_notop.h5")
              /\ loads[1].by_name = FALSE
              /\ model.name = "inception_resnet_v2"
              /\ Len(trace) = Len(ExpectedOrder) + 2
              /\ trace[Len(trace) - 1].fn = "Model"
              /\ LastEvent.fn = "load_weights"
        /\ model.weights # None => loads # <<>> /\ model.weights = loads[1].path
        /\ pc = "done" =>
              /\ (loads # <<>>) = (args.weights = "imagenet")
              /\ args.weights # "imagenet" => model.weights = None

C8_Witness ==
    /\ pc = "done"
    /\ ~args.include_top
    /\ Len(loads) = 1
    /\ model.weights = WEIGHTS_PATH_NO_TOP

BlockNames(block_type, i) ==
    LET n == block_type \o "_" \o ToString(i)
    IN {n \o "_mixed", n \o "_conv", n, n \o "_ac"}

FixedNames == {"mixed_5b", "mixed_6a", "mixed_7a", "conv_7b", "conv_7b_bn", "conv_7b_ac"}

HeadNames == {"avg_pool", "predictions"}

AllBlockNames ==
    UNION ({BlockNames("block35", i) : i \in 1..10}
           \cup {BlockNames("block17", i) : i \in 1..20}
           \cup {BlockNames("block8", i) : i \in 1..10})

NameSet == {names[i] : i \in 1..Len(names)}

\* C9: no explicit layer name is given twice; the finished model carries the four
\* names of each of its 40 residual blocks, each block's own, besides mixed_5b,
\* mixed_6a, mixed_7a, conv_7b, conv_7b_bn, conv_7b_ac and, with the top, avg_pool
\* and predictions.
C9_DistinctNames ==
    BuildRunning =>
        /\ Cardinality(NameSet) = Len(names)
        /\ LastIsBlock =>
              ExplicitNames(last.layers) =
                  LET n == LastEvent.name \o "_" \o ToString(LastEvent.idx)
                  IN <<n \o "_mixed", n \o "_conv", n, n \o "_ac">>
        /\ ModelCreated =>
              /\ NameSet = AllBlockNames \cup FixedNames
                              \cup (IF args.include_top THEN HeadNames ELSE {})
              /\ Len(names) = 160 + 6 + (IF args.include_top THEN 2 ELSE 0)

C9_Witness ==
    /\ pc = "done"
    /\ args.include_top
    /\ Len(names) = 168
    /\ Cardinality(NameSet) = 168

GridAndProjection(block_type, grid, filters) ==
    (BuildRunning /\ LastIsBlock /\ LastEvent.name = block_type) =>
        /\ inputs = <<None, 299, 299, 3>> =>
              BlockInput(last)[2] = grid /\ BlockInput(last)[3] = grid
        /\ Len(Projection(last)) = 1
        /\ Projection(last)[1].attr.filters = filters

\* C10, as the module documentation has it: block35, block17 and block8 work on
\* 35x35, 17x17 and 8x8 grids for a 299x299 input, and their joint convolutions have
\* 384, 1154 and 2048 filters.
C10_Docstring ==
    /\ GridAndProjection("block35", 35, 384)
    /\ GridAndProjection("block17", 17, 1154)
    /\ GridAndProjection("block8", 8, 2048)

\* C10, what is built instead: block35, block17 and block8 work on 35x35, 17x17 and
\* 8x8 grids for a 299x299 input, and their joint convolutions have 320, 1088 and
\* 2080 filters, the channel counts of their inputs (as the stage comments say).
C10_GridAndFilters ==
    /\ GridAndProjection("block35", 35, 320)
    /\ GridAndProjection("block17", 17, 1088)
    /\ GridAndProjection("block8", 8, 2080)

C10_Witness ==
    /\ BuildRunning /\ LastIsBlock /\ LastEvent.name = "block17" /\ LastEvent.idx = 20
    /\ inputs = <<None, 299, 299, 3>>
    /\ BlockInput(last) = <<None, 17, 17, 1088>>
    /\ Projection(last)[1].attr.filters = 1088

====
